---- MODULE Spec2Model ----
(***************************************************************************)
(* State-machine model of src/src/components/ExpenseDashboard.tsx: the     *)
(* ExpenseDashboard component (hook state, effects, event handlers) and    *)
(* the two localStorage entries it keeps.                                  *)
(*                                                                         *)
(* Encoding of JavaScript values                                           *)
(*   number   money is an integer count of thousandths of a currency unit  *)
(*            ("4.5" is 4500, "0.004" is 4); NaN is modelled by the        *)
(*            tagged value of Number(), never by an integer                *)
(*   text     a sequence of one-character strings, <<>> is ""              *)
(*   date     "YYYY-MM-DD" is the integer YYYYMMDD, so that the month key  *)
(*            date.slice(0, 7) is date \div 100 and localeCompare on two   *)
(*            dates is integer comparison                                  *)
(*   object   a record whose DOMAIN is the set of keys it has; a key that  *)
(*            is missing reads as undefined                                *)
(*   string held by localStorage: a tagged record, see StoredExpenses and  *)
(*            StoredBudgets                                                *)
(***************************************************************************)
EXTENDS Integers, Sequences, FiniteSets, TLC

VARIABLES
    storage,           \* window.localStorage: [expenses, budget]
    expenses,          \* useState<Expense[]>
    budget,            \* useState<number>
    selectedMonth,     \* useState<string>
    error,             \* useState<string>
    isReady,           \* useState(false)
    view,              \* the hook values captured by the last render's closures
    expensesReplaced,  \* setExpenses installed a new array since the last render
    queue,             \* effects of the last render that have not run yet
    status,            \* "live", or "crashed" once a render has thrown
    issued,            \* number of identifiers crypto.randomUUID() has produced
    events             \* number of user events so far

vars == <<storage, expenses, budget, selectedMonth, error, isReady, view,
          expensesReplaced, queue, status, issued, events>>

(***************************************************************************)
(* Bounds                                                                  *)
(***************************************************************************)
MaxStored == 2      \* longest array found in the durable expense entry
MaxEvents == 2      \* user events in one run

(***************************************************************************)
(* Values                                                                  *)
(***************************************************************************)
Dollars(n) == n * 1000

UNDEFINED == <<"undefined">>

Range(s) == {s[i] : i \in DOMAIN s}

Max(S) == CHOOSE m \in S : \A n \in S : n <= m

CATEGORY_PRESETS ==
    <<"Housing", "Food", "Transportation", "Utilities", "Health",
      "Entertainment", "Subscriptions", "Savings", "Other">>

defaultMonth == 202402

Dates == {20240120, 20240201}

DefaultBudget == Dollars(2000)


(***************************************************************************)
(* Strings that hold a number or fail to: what Number(), String() and      *)
(* toFixed(2) read and write.  k is "null" (getItem found no entry),       *)
(* "empty" (""), "nan" (text that is no numeric literal, "abc") or "num"   *)
(* (the decimal literal of v).                                            *)
(***************************************************************************)
NullEntry == [k |-> "null", v |-> 0]
EmptyText == [k |-> "empty", v |-> 0]
NonNumericText == [k |-> "nan", v |-> 0]
NumText(n) == [k |-> "num", v |-> n]

\* Number(text): "" converts to 0, a numeric literal to its value, other text to NaN
Number(t) ==
    CASE t.k = "num" -> [nan |-> FALSE, v |-> t.v]
      [] t.k = "empty" -> [nan |-> FALSE, v |-> 0]
      [] OTHER -> [nan |-> TRUE, v |-> 0]

\* String(number) for a finite number: its shortest decimal literal
String(n) == NumText(n)

\* n.toFixed(2): the decimal literal of n rounded to the nearest hundredth
\* (n counts thousandths; no sampled n lies on an exact half-hundredth)
toFixed2(n) ==
    IF n >= 0 THEN NumText(((n + 5) \div 10) * 10)
              ELSE NumText(0 - (((0 - n) + 5) \div 10) * 10)

NoError == ""
EmptyDescriptionError == "Add a description to remember what you spent on."
InvalidAmountError == "Enter a positive amount."

\* what the form fields and controls hand to the handlers
DescriptionTexts == {<<>>, <<" ">>, <<"x">>, <<" ", "x", " ">>}
AmountTexts ==
    {EmptyText, NonNumericText, NumText(0 - 5000), NumText(0), NumText(4), NumText(4500)}
\* category, date and notes as the select, the date input and the notes input hold them
FormRest ==
    {[category |-> "Food", date |-> 20240201, notes |-> <<>>],
     [category |-> "Housing", date |-> 20240120, notes |-> <<"x", " ">>]}
SliderValues == {Dollars(0), Dollars(50)}
MonthInputs == {202401, 202403}
AbsentId == "no-such-id"

\* if (storedValue): null and "" are falsy, every other string is truthy
Truthy(entry) == entry.k \notin {"null", "empty"}

\* text.trim()
RECURSIVE TrimLeft(_)
TrimLeft(s) ==
    IF s # <<>> /\ Head(s) = " " THEN TrimLeft(Tail(s)) ELSE s

RECURSIVE TrimRight(_)
TrimRight(s) ==
    IF s # <<>> /\ s[Len(s)] = " " THEN TrimRight(SubSeq(s, 1, Len(s) - 1)) ELSE s

Trim(s) == TrimRight(TrimLeft(s))

(***************************************************************************)
(* The durable expense entry.  k is "null", "empty", "garbage" (text that  *)
(* JSON.parse rejects) or "json"; a "json" entry is an array of items      *)
(* (array = TRUE) or another JSON value such as {} (array = FALSE).        *)
(***************************************************************************)
JNull == [null |-> TRUE]

ItemA == [id |-> "a", description |-> <<"x">>, category |-> "Food",
          amount |-> 12500, date |-> 20240201]
ItemB == [id |-> "b", description |-> <<"x">>, category |-> "Housing",
          amount |-> 3000, date |-> 20240120, notes |-> <<"x">>]
ItemNegative == [id |-> "c", description |-> <<"x">>, category |-> "Food",
                 amount |-> 0 - 5000, date |-> 20240201]
ItemNoId == [id |-> "", description |-> <<"x">>, category |-> "Food",
             amount |-> 100, date |-> 20240201]
ItemNoAmount == [id |-> "d", description |-> <<"x">>, category |-> "Food",
                 date |-> 20240201]
ItemNoDate == [id |-> "e", description |-> <<"x">>, category |-> "Food",
               amount |-> 300]

ItemUnlisted == [id |-> "f", description |-> <<"x">>, category |-> "Pets",
                 amount |-> 700, date |-> 20240201]

StoredItems ==
    {JNull, ItemA, ItemB, ItemNegative, ItemNoId, ItemNoAmount, ItemNoDate, ItemUnlisted}

SeqsUpTo(S, n) == UNION {[1..m -> S] : m \in 0..n}

JSONText(isArray, items) == [k |-> "json", array |-> isArray, items |-> items]

StoredExpenses ==
    {[k |-> "null", array |-> FALSE, items |-> <<>>],
     [k |-> "garbage", array |-> FALSE, items |-> <<>>],
     JSONText(FALSE, <<>>)}
    \cup {JSONText(TRUE, items) : items \in SeqsUpTo(StoredItems, MaxStored)}

StoredBudgets ==
    {NullEntry, NonNumericText, NumText(0 - Dollars(100)), NumText(Dollars(50))}

\* JSON.stringify(value) drops the keys of an object whose value is undefined
\* (notes is the one key handleSubmit can set to undefined)
DropUndefined(r) ==
    [key \in {f \in DOMAIN r : ~(f = "notes" /\ r[f] = UNDEFINED)} |-> r[key]]

JSONstringify(list) == JSONText(TRUE, [i \in DOMAIN list |-> DropUndefined(list[i])])

\* JSON.parse(text) throws a SyntaxError on text that is not JSON
JSONparse(entry) ==
    IF entry.k = "json"
    THEN [threw |-> FALSE, array |-> entry.array, items |-> entry.items]
    ELSE [threw |-> TRUE, array |-> FALSE, items |-> <<>>]

(***************************************************************************)
(* The hydrate effect, lines 75-102                                        *)
(***************************************************************************)
\* a load filter that also insists on a positive amount
WellFormedOnLoadPositive(item) ==
    /\ "amount" \in DOMAIN item
    /\ item.amount > 0
    /\ "id" \in DOMAIN item
    /\ item.id # ""

\* typeof item.amount === "number" && Boolean(item.id), for an item that is an object
WellFormedOnLoad(item) ==
    /\ "amount" \in DOMAIN item
    /\ "id" \in DOMAIN item
    /\ item.id # ""

\* reading item.amount throws a TypeError when item is null
FilterThrows(items) == \E i \in DOMAIN items : items[i] = JNull

\* parsed.filter(...) over items that are objects
RECURSIVE FilterOnLoad(_)
FilterOnLoad(items) ==
    IF items = <<>> THEN <<>>
    ELSE IF WellFormedOnLoad(Head(items))
         THEN <<Head(items)>> \o FilterOnLoad(Tail(items))
         ELSE FilterOnLoad(Tail(items))

\* The key the comparator b.date.localeCompare(a.date) orders by.  An
\* undefined a.date is compared as the text "undefined", which collates
\* after every date.
DateKey(item) == IF "date" \in DOMAIN item THEN item.date ELSE Max(Dates) + 1

\* insert item behind every element whose key is not smaller (stable, descending)
RECURSIVE InsertByDate(_, _)
InsertByDate(sorted, item) ==
    IF sorted = <<>> THEN <<item>>
    ELSE IF DateKey(Head(sorted)) >= DateKey(item)
         THEN <<Head(sorted)>> \o InsertByDate(Tail(sorted), item)
         ELSE <<item>> \o sorted

\* list.sort((a, b) => b.date.localeCompare(a.date)): stable, newest first
RECURSIVE SortByDateDesc(_)
SortByDateDesc(list) ==
    IF list = <<>> THEN <<>>
    ELSE InsertByDate(SortByDateDesc(SubSeq(list, 1, Len(list) - 1)), list[Len(list)])

\* b.date.localeCompare throws a TypeError when b.date is undefined.  Which
\* element of a pair the engine passes as b is implementation-defined: with
\* two or more elements the sort throws for certain when no element has a
\* date, and may or may not throw when some element has none.
SortThrowsChoices(list) ==
    LET dateless == {i \in DOMAIN list : "date" \notin DOMAIN list[i]}
    IN  IF Len(list) < 2 \/ dateless = {} THEN {FALSE}
        ELSE IF dateless = DOMAIN list THEN {TRUE}
        ELSE {TRUE, FALSE}

\* lines 82-89: what the expense part of the try block does.  threw: an
\* exception left the block; set: setExpenses was called with value.
Unset(didThrow) == [threw |-> didThrow, set |-> FALSE, value |-> <<>>]

HydrateExpenses(entry) ==
    IF ~Truthy(entry) THEN {Unset(FALSE)}
    ELSE LET parsed == JSONparse(entry)
         IN  IF parsed.threw \/ ~parsed.array \/ FilterThrows(parsed.items)
             THEN {Unset(TRUE)}
             ELSE LET kept == FilterOnLoad(parsed.items)
                  IN  {IF t THEN Unset(TRUE)
                            ELSE [threw |-> FALSE, set |-> TRUE, value |-> SortByDateDesc(kept)]
                       : t \in SortThrowsChoices(kept)}

\* lines 91-96: what the budget part of the try block does
HydrateBudget(entry) ==
    IF ~Truthy(entry) THEN [set |-> FALSE, value |-> 0]
    ELSE LET parsedBudget == Number(entry)
         IN  IF ~parsedBudget.nan THEN [set |-> TRUE, value |-> parsedBudget.v]
                                  ELSE [set |-> FALSE, value |-> 0]

\* the state updates the whole effect body can make for a given localStorage
HydrateOutcomes(store) ==
    {[expenses |-> e,
      budget |-> IF e.threw THEN [set |-> FALSE, value |-> 0] ELSE HydrateBudget(store.budget)]
     : e \in HydrateExpenses(store.expenses)}

(***************************************************************************)
(* Derived values the effects read                                         *)
(***************************************************************************)
\* item.date.slice(0, 7)
MonthOf(item) == item.date \div 100

RECURSIVE SetToSeqDesc(_)
SetToSeqDesc(S) ==
    IF S = {} THEN <<>> ELSE <<Max(S)>> \o SetToSeqDesc(S \ {Max(S)})

\* lines 114-119
monthOptions(list) == SetToSeqDesc({MonthOf(list[i]) : i \in DOMAIN list} \cup {defaultMonth})

\* item.date.slice / item.date.startsWith throw a TypeError on an item without date
RenderThrows(list) == \E i \in DOMAIN list : "date" \notin DOMAIN list[i]

(***************************************************************************)
(* Derived values a render computes (useMemo, lines 127-160).  A number is *)
(* a record: nan tells NaN from the finite value v.                        *)
(***************************************************************************)
Num(n) == [nan |-> FALSE, v |-> n]
NaN == [nan |-> TRUE, v |-> 0]

\* x + n for a finite n: NaN + n is NaN
Plus(x, n) == IF x.nan THEN NaN ELSE Num(x.v + n)

\* lines 127-130: expenses.filter((item) => item.date.startsWith(selectedMonth))
filteredExpenses(list, month) == SelectSeq(list, LAMBDA item : MonthOf(item) = month)

\* lines 137-140: filteredExpenses.reduce((sum, current) => sum + current.amount, 0)
RECURSIVE totalSpent(_)
totalSpent(filtered) ==
    IF filtered = <<>> THEN 0
    ELSE totalSpent(SubSeq(filtered, 1, Len(filtered) - 1)) + filtered[Len(filtered)].amount

\* lines 143-153: the object literal with the nine keys
ZeroTotals == [c \in Range(CATEGORY_PRESETS) |-> Num(0)]

\* item.category as a property key: a missing category is the key "undefined"
CategoryKey(item) == IF "category" \in DOMAIN item THEN item.category ELSE "undefined"

\* line 156: totals[item.category] += item.amount.  Reading a key the object
\* lacks yields undefined, undefined + amount is NaN, and the assignment
\* creates the key.
AddToTotals(totals, item) ==
    LET key == CategoryKey(item)
    IN  IF key \in DOMAIN totals
        THEN [totals EXCEPT ![key] = Plus(@, item.amount)]
        ELSE [k \in DOMAIN totals \cup {key} |-> IF k = key THEN NaN ELSE totals[k]]

\* lines 142-160
RECURSIVE categoryTotals(_)
categoryTotals(filtered) ==
    IF filtered = <<>> THEN ZeroTotals
    ELSE AddToTotals(categoryTotals(SubSeq(filtered, 1, Len(filtered) - 1)),
                     filtered[Len(filtered)])

(***************************************************************************)
(* The projection (lines 167-185).  A date is the number YYYYMMDD, a month *)
(* key the number YYYYMM.  The result of a division is a record: kind is   *)
(* "finite" (the exact quotient num / den), "infinite" (a non-zero number  *)
(* divided by 0) or "nan" (0 / 0).                                         *)
(***************************************************************************)
\* what new Date() can return while the page of defaultMonth is open: a day of
\* that month, or of the next one when the page stays open past its end
Todays == {20240201, 20240215, 20240229, 20240301}

\* lines 167-170: selectedMonth.split("-").map(Number)
monthDate(key) == [year |-> key \div 100, monthIndex |-> (key % 100) - 1]

isLeapYear(year) == (year % 4 = 0 /\ year % 100 # 0) \/ year % 400 = 0

\* new Date(year, monthIndex + 1, 0).getDate(): the last day of that month
LastDayOfMonth(year, monthIndex) ==
    IF monthIndex = 1 THEN (IF isLeapYear(year) THEN 29 ELSE 28)
    ELSE IF monthIndex \in {3, 5, 8, 10} THEN 30
    ELSE 31

\* a day count that leaves out the day in progress
daysElapsedInMonthCompleted(key, todayDate) ==
    LET date == monthDate(key)
        isCurrentMonth == /\ todayDate \div 10000 = date.year
                          /\ ((todayDate \div 100) % 100) - 1 = date.monthIndex
    IN  IF isCurrentMonth THEN (todayDate % 100) - 1
        ELSE LastDayOfMonth(date.year, date.monthIndex)

\* lines 172-178 (split always yields a year, so line 173 never returns)
daysElapsedInMonth(key, todayDate) ==
    LET date == monthDate(key)
        isCurrentMonth == /\ todayDate \div 10000 = date.year
                          /\ ((todayDate \div 100) % 100) - 1 = date.monthIndex
    IN  IF isCurrentMonth THEN todayDate % 100
        ELSE LastDayOfMonth(date.year, date.monthIndex)

Finite(n, d) == [kind |-> "finite", num |-> n, den |-> d]

\* x / d for finite numbers x and d >= 0
Divide(x, d) ==
    IF d # 0 THEN Finite(x, d)
    ELSE IF x = 0 THEN [kind |-> "nan", num |-> 0, den |-> 0]
    ELSE [kind |-> "infinite", num |-> x, den |-> 0]

\* q * n for a number n > 0
Times(q, n) == IF q.kind = "finite" THEN Finite(q.num * n, q.den) ELSE q

\* lines 180-185
projectedSpending(filtered, key, todayDate) ==
    IF Len(filtered) = 0 THEN Finite(0, 1)
    ELSE LET average == Divide(totalSpent(filtered), daysElapsedInMonth(key, todayDate))
             daysInMonth == LastDayOfMonth(monthDate(key).year, monthDate(key).monthIndex)
         IN  Times(average, daysInMonth)

(***************************************************************************)
(* React: a render captures the hook values in view; the effects whose     *)
(* dependencies changed are queued in declaration order and run against    *)
(* view; state they set is rendered once the queue is empty.               *)
(***************************************************************************)
AllEffects == <<"hydrate", "persistExpenses", "persistBudget", "monthReset">>

Snapshot == [expenses |-> expenses, budget |-> budget, isReady |-> isReady,
             selectedMonth |-> selectedMonth]

InitialState == [expenses |-> <<>>, budget |-> DefaultBudget, isReady |-> FALSE,
                 selectedMonth |-> defaultMonth]

RenderNeeded ==
    \/ expensesReplaced
    \/ budget # view.budget
    \/ isReady # view.isReady
    \/ selectedMonth # view.selectedMonth

Idle == status = "live" /\ queue = <<>> /\ ~RenderNeeded

\* dependency arrays in which the budget effect forgets budget
DepsChangedWithoutBudget(effect) ==
    CASE effect = "hydrate" -> FALSE
      [] effect = "persistExpenses" -> expensesReplaced \/ isReady # view.isReady
      [] effect = "persistBudget" -> isReady # view.isReady
      [] effect = "monthReset" -> expensesReplaced \/ selectedMonth # view.selectedMonth

\* dependency arrays in which the month effect forgets selectedMonth
DepsChangedWithoutSelectedMonth(effect) ==
    CASE effect = "hydrate" -> FALSE
      [] effect = "persistExpenses" -> expensesReplaced \/ isReady # view.isReady
      [] effect = "persistBudget" -> budget # view.budget \/ isReady # view.isReady
      [] effect = "monthReset" -> expensesReplaced

\* the dependency arrays of lines 102, 107, 112 and 125
DepsChanged(effect) ==
    CASE effect = "hydrate" -> FALSE
      [] effect = "persistExpenses" -> expensesReplaced \/ isReady # view.isReady
      [] effect = "persistBudget" -> budget # view.budget \/ isReady # view.isReady
      [] effect = "monthReset" -> expensesReplaced \/ selectedMonth # view.selectedMonth

Init ==
    /\ storage \in [expenses : StoredExpenses, budget : StoredBudgets]
    /\ expenses = InitialState.expenses
    /\ budget = InitialState.budget
    /\ selectedMonth = InitialState.selectedMonth
    /\ isReady = InitialState.isReady
    /\ error = NoError
    /\ view = InitialState
    /\ expensesReplaced = FALSE
    /\ queue = AllEffects
    /\ status = "live"
    /\ issued = 0
    /\ events = 0

Render ==
    /\ status = "live"
    /\ queue = <<>>
    /\ RenderNeeded
    /\ IF RenderThrows(expenses)
       THEN /\ status' = "crashed"
            /\ UNCHANGED <<view, queue>>
       ELSE /\ view' = Snapshot
            /\ queue' = SelectSeq(AllEffects, DepsChanged)
            /\ UNCHANGED status
    /\ expensesReplaced' = FALSE
    /\ UNCHANGED <<storage, expenses, budget, selectedMonth, error, isReady,
                   issued, events>>

HydrateEffect ==
    /\ status = "live"
    /\ queue # <<>>
    /\ Head(queue) = "hydrate"
    /\ \E o \in HydrateOutcomes(storage) :
        /\ expenses' = IF o.expenses.set THEN o.expenses.value ELSE expenses
        /\ expensesReplaced' = (expensesReplaced \/ o.expenses.set)
        /\ budget' = IF o.budget.set THEN o.budget.value ELSE budget
    /\ isReady' = TRUE
    /\ queue' = Tail(queue)
    /\ UNCHANGED <<storage, selectedMonth, error, view, status, issued, events>>

\* the expense effect without its isReady guard
PersistExpensesEffectUnguarded ==
    /\ status = "live"
    /\ queue # <<>>
    /\ Head(queue) = "persistExpenses"
    /\ storage' = [storage EXCEPT !.expenses = JSONstringify(view.expenses)]
    /\ queue' = Tail(queue)
    /\ UNCHANGED <<expenses, budget, selectedMonth, error, isReady, view,
                   expensesReplaced, status, issued, events>>

\* lines 104-107
PersistExpensesEffect ==
    /\ status = "live"
    /\ queue # <<>>
    /\ Head(queue) = "persistExpenses"
    /\ storage' = IF ~view.isReady THEN storage
                  ELSE [storage EXCEPT !.expenses = JSONstringify(view.expenses)]
    /\ queue' = Tail(queue)
    /\ UNCHANGED <<expenses, budget, selectedMonth, error, isReady, view,
                   expensesReplaced, status, issued, events>>

\* lines 109-112
PersistBudgetEffect ==
    /\ status = "live"
    /\ queue # <<>>
    /\ Head(queue) = "persistBudget"
    /\ storage' = IF ~view.isReady THEN storage
                  ELSE [storage EXCEPT !.budget = String(view.budget)]
    /\ queue' = Tail(queue)
    /\ UNCHANGED <<expenses, budget, selectedMonth, error, isReady, view,
                   expensesReplaced, status, issued, events>>

Includes(list, x) == \E i \in DOMAIN list : list[i] = x

MonthResetEffect ==
    /\ status = "live"
    /\ queue # <<>>
    /\ Head(queue) = "monthReset"
    /\ selectedMonth' = IF ~Includes(monthOptions(view.expenses), view.selectedMonth)
                        THEN monthOptions(view.expenses)[1]
                        ELSE selectedMonth
    /\ queue' = Tail(queue)
    /\ UNCHANGED <<storage, expenses, budget, error, isReady, view,
                   expensesReplaced, status, issued, events>>

(***************************************************************************)
(* Event handlers.  React runs the pending effects before it dispatches an *)
(* event, so a handler starts from an idle component and reads, through    *)
(* its closure, the values of the last render.                             *)
(***************************************************************************)
\* crypto.randomUUID(): an identifier that no earlier call returned
randomUUID(n) == "u" \o ToString(n + 1)

PresentIds == {expenses[i].id : i \in DOMAIN expenses}

\* the checks with the amount compared by < 0 instead of <= 0
ValidationErrorAllowingZero(description, amount) ==
    LET parsedAmount == Number(amount)
    IN  IF Trim(description) = <<>> THEN EmptyDescriptionError
        ELSE IF parsedAmount.nan \/ parsedAmount.v < 0 THEN InvalidAmountError
        ELSE NoError

\* lines 195-204: the two checks of handleSubmit; "" when both pass
ValidationError(description, amount) ==
    LET parsedAmount == Number(amount)
    IN  IF Trim(description) = <<>> THEN EmptyDescriptionError
        ELSE IF parsedAmount.nan \/ parsedAmount.v <= 0 THEN InvalidAmountError
        ELSE NoError

\* lines 206-213
NewExpense(id, description, amount, category, date, notes) ==
    [id |-> id,
     description |-> Trim(description),
     category |-> category,
     amount |-> Number(toFixed2(Number(amount).v)).v,
     date |-> date,
     notes |-> IF Trim(notes) # <<>> THEN Trim(notes) ELSE UNDEFINED]

\* lines 191-219
handleSubmit(description, amount, category, date, notes) ==
    /\ Idle
    /\ events < MaxEvents
    /\ LET failure == ValidationError(description, amount)
       IN  IF failure # NoError
           THEN /\ error' = failure
                /\ UNCHANGED <<expenses, expensesReplaced, issued>>
           ELSE /\ error' = NoError
                /\ expenses' = <<NewExpense(randomUUID(issued), description, amount,
                                            category, date, notes)>> \o expenses
                /\ expensesReplaced' = TRUE
                /\ issued' = issued + 1
    /\ events' = events + 1
    /\ UNCHANGED <<storage, budget, selectedMonth, isReady, view, queue, status>>

\* a filter that stops at the first match and drops what follows it
RECURSIVE FilterOutIdTruncating(_, _)
FilterOutIdTruncating(prev, id) ==
    IF prev = <<>> THEN <<>>
    ELSE IF Head(prev).id # id
         THEN <<Head(prev)>> \o FilterOutIdTruncating(Tail(prev), id)
         ELSE <<>>

\* prev.filter((item) => item.id !== id)
RECURSIVE FilterOutId(_, _)
FilterOutId(prev, id) ==
    IF prev = <<>> THEN <<>>
    ELSE IF Head(prev).id # id
         THEN <<Head(prev)>> \o FilterOutId(Tail(prev), id)
         ELSE FilterOutId(Tail(prev), id)

\* lines 221-223
handleDelete(id) ==
    /\ Idle
    /\ events < MaxEvents
    /\ expenses' = FilterOutId(expenses, id)
    /\ expensesReplaced' = TRUE
    /\ events' = events + 1
    /\ UNCHANGED <<storage, budget, selectedMonth, error, isReady, view, queue,
                   status, issued>>

\* lines 225-227
handleBudgetChange(value) ==
    /\ Idle
    /\ events < MaxEvents
    /\ budget' = Number(toFixed2(value)).v
    /\ events' = events + 1
    /\ UNCHANGED <<storage, expenses, selectedMonth, error, isReady, view,
                   expensesReplaced, queue, status, issued>>

\* line 253: onChange of the month input
onMonthChange(key) ==
    /\ Idle
    /\ events < MaxEvents
    /\ selectedMonth' = key
    /\ events' = events + 1
    /\ UNCHANGED <<storage, expenses, budget, error, isReady, view,
                   expensesReplaced, queue, status, issued>>

\* The page is loaded again: the component is constructed anew (lines 64-73)
\* over the localStorage the previous page left.
Reload ==
    /\ Idle \/ status = "crashed"
    /\ events < MaxEvents
    /\ expenses' = InitialState.expenses
    /\ budget' = InitialState.budget
    /\ selectedMonth' = InitialState.selectedMonth
    /\ isReady' = InitialState.isReady
    /\ error' = NoError
    /\ view' = InitialState
    /\ expensesReplaced' = FALSE
    /\ queue' = AllEffects
    /\ status' = "live"
    /\ events' = events + 1
    /\ UNCHANGED <<storage, issued>>

Submit ==
    \E description \in DescriptionTexts, amount \in AmountTexts, rest \in FormRest :
        handleSubmit(description, amount, rest.category, rest.date, rest.notes)

Delete == \E id \in PresentIds \cup {AbsentId} : handleDelete(id)

BudgetChange == \E value \in SliderValues : handleBudgetChange(value)

MonthChange == \E key \in MonthInputs : onMonthChange(key)

Next ==
    \/ Render
    \/ HydrateEffect
    \/ PersistExpensesEffect
    \/ PersistBudgetEffect
    \/ MonthResetEffect
    \/ Submit
    \/ Delete
    \/ BudgetChange
    \/ MonthChange
    \/ Reload

Spec == Init /\ [][Next]_vars

(***************************************************************************)
(* Properties                                                              *)
(***************************************************************************)
GeneratedIds == {randomUUID(n) : n \in 0..(issued - 1)}

\* the hydrate effect has run and its state updates are not rendered yet:
\* localStorage still holds what the effect read
JustHydrated == status = "live" /\ isReady /\ ~view.isReady

\* what the component holds once the updates of a hydrate outcome are applied
\* to the construction defaults
Loaded(o) ==
    [expenses |-> IF o.expenses.set THEN o.expenses.value ELSE InitialState.expenses,
     budget |-> IF o.budget.set THEN o.budget.value ELSE InitialState.budget]

\* a collection by value: a key whose value is undefined counts as a missing key
ByValue(list) == [i \in DOMAIN list |-> DropUndefined(list[i])]

Count(r, list) == Cardinality({i \in DOMAIN list : list[i] = r})

SameRecords(s, t) ==
    /\ Len(s) = Len(t)
    /\ \A r \in Range(s) \cup Range(t) : Count(r, s) = Count(r, t)

NewestFirst(list) ==
    \A i, j \in DOMAIN list : i < j => list[i].date >= list[j].date

StoredIds ==
    {storage.expenses.items[i].id :
        i \in {j \in DOMAIN storage.expenses.items : "id" \in DOMAIN storage.expenses.items[j]}}

\* C1: a step that changes localStorage is taken only after the startup load
\* has finished, and the entry it changes receives the serialization of the
\* current in-memory value, so the construction defaults (empty collection,
\* budget 2000) are never written over durable data that was not read.
C1_NoWriteBeforeLoad ==
    [][storage' # storage =>
         /\ isReady
         /\ storage'.expenses # storage.expenses => storage'.expenses = JSONstringify(expenses)
         /\ storage'.budget # storage.budget => storage'.budget = String(budget)]_vars

\* a write has followed the load: the durable entry holds a record created in this run
C1_Witness ==
    /\ isReady
    /\ storage.expenses.k = "json"
    /\ randomUUID(0) \in StoredIds

\* C2: once the component is loaded and the effects of a mutation (add, remove,
\* set budget) have run, the durable expense entry is the serialization of the
\* in-memory collection and the durable budget entry is the text of the
\* in-memory budget.
C2_SavedAfterMutation ==
    (Idle /\ isReady) =>
        /\ storage.expenses = JSONstringify(expenses)
        /\ storage.budget = String(budget)

\* an add and a budget change (0 comes from the slider alone) have been saved
C2_Witness ==
    /\ Idle
    /\ isReady
    /\ randomUUID(0) \in PresentIds
    /\ budget = Dollars(0)

C4_AddedExpenseIsPositive ==
    \A i \in DOMAIN expenses :
        expenses[i].id \in GeneratedIds =>
            /\ expenses[i].amount > 0
            /\ expenses[i].description # <<>>

\* the inputs C5 calls invalid: a description that is empty once trimmed, an
\* amount that is no number, or a number <= 0
FailsValidation(description, amount) ==
    \/ \A i \in DOMAIN description : description[i] = " "
    \/ amount.k \in {"nan", "empty"}
    \/ amount.k = "num" /\ amount.v <= 0

\* C5: an add attempt whose input fails validation sets an error message and
\* changes neither the expense collection, nor the budget, nor localStorage,
\* and schedules no effect that could.
C5_RejectedAddChangesNothing ==
    [][(Idle /\ events' # events) =>
         \A description \in DescriptionTexts, amount \in AmountTexts, rest \in FormRest :
            (/\ FailsValidation(description, amount)
             /\ handleSubmit(description, amount, rest.category, rest.date, rest.notes))
            => /\ error' # NoError
               /\ expenses' = expenses
               /\ budget' = budget
               /\ storage' = storage
               /\ Idle']_vars

\* an add was rejected while the collection held a record
C5_Witness ==
    /\ error # NoError
    /\ expenses # <<>>
    /\ Idle

\* the claim's well-formed record: a numeric amount and a non-empty id
ClaimWellFormed(item) ==
    /\ "amount" \in DOMAIN item
    /\ "id" \in DOMAIN item
    /\ item.id # ""

\* C6: when the durable expense entry is a sequence of records, the loaded
\* collection holds exactly the well-formed records of that sequence, whatever
\* the other records of the sequence are.
C6_LoadKeepsWellFormed ==
    (JustHydrated /\ storage.expenses.k = "json" /\ storage.expenses.array) =>
        SameRecords(expenses, SelectSeq(storage.expenses.items, ClaimWellFormed))

\* C7: load returns the stored budget when the budget entry is numeric and the
\* default 2000 otherwise, whatever the expense entry holds.
C7_BudgetReadIndependently ==
    JustHydrated =>
        budget = IF storage.budget.k = "num" THEN storage.budget.v ELSE DefaultBudget

\* C8: every record of the in-memory collection has amount > 0 and no two
\* records share an id.
C8_PositiveAmountsUniqueIds ==
    /\ \A i \in DOMAIN expenses : expenses[i].amount > 0
    /\ \A i, j \in DOMAIN expenses : i # j => expenses[i].id # expenses[j].id

\* C9: the in-memory budget is never below 0.
C9_BudgetNonNegative == budget >= 0

\* C10: remove(id) leaves exactly the records whose id differs, in their
\* order, leaves the budget alone and raises no error; with no record of that
\* id the collection is unchanged.
C10_RemoveFrame ==
    [][\A id \in PresentIds \cup {AbsentId} :
         handleDelete(id) =>
            /\ expenses' = SelectSeq(expenses, LAMBDA item : item.id # id)
            /\ (id \notin PresentIds => expenses' = expenses)
            /\ budget' = budget
            /\ error' = error
            /\ status' = "live"]_vars

\* a remove has deleted a record and left another one
C10_Witness ==
    /\ view.isReady
    /\ expensesReplaced
    /\ expenses # <<>>
    /\ Len(expenses) < Len(view.expenses)

\* the month keys a selection can hold
MonthKeys == {defaultMonth} \cup MonthInputs \cup {d \div 100 : d \in Dates}

\* the sum of the values of a totals object
RECURSIVE SumOfValues(_, _)
SumOfValues(totals, keys) ==
    IF keys = {} THEN Num(0)
    ELSE LET key == CHOOSE k \in keys : TRUE
             rest == SumOfValues(totals, keys \ {key})
         IN  IF totals[key].nan THEN NaN ELSE Plus(rest, totals[key].v)

\* C11: whatever collection a render shows and whichever month is selected,
\* categoryTotals of the expenses of that month has exactly the nine category
\* keys, and its values add up to totalSpent of those expenses.
C11_NineKeysSumToTotal ==
    (status = "live" /\ ~RenderThrows(view.expenses)) =>
        \A month \in MonthKeys :
            LET filtered == filteredExpenses(view.expenses, month)
                totals == categoryTotals(filtered)
            IN  /\ DOMAIN totals = Range(CATEGORY_PRESETS)
                /\ SumOfValues(totals, DOMAIN totals) = Num(totalSpent(filtered))

IsZero(q) == q.kind = "finite" /\ q.num = 0

C13_SelectedMonthIsAnOption ==
    Idle =>
        /\ Includes(monthOptions(expenses), selectedMonth)
        /\ \/ selectedMonth = defaultMonth
           \/ \E i \in DOMAIN expenses : MonthOf(expenses[i]) = selectedMonth

\* a month other than the current one was chosen and, an expense being dated
\* in it, is still selected once the effects have run
C13_Witness ==
    /\ Idle
    /\ isReady
    /\ events > 0
    /\ selectedMonth # defaultMonth

====
